---------------------------- MODULE Spec2Model ----------------------------
(***************************************************************************)
(* Model of src/app.py: the TTM-squeeze indicator (calculate_squeeze), the *)
(* scan orchestration (scan_markets), the snapshot store (squeeze_data     *)
(* guarded by data_lock), the alert dispatcher (send_discord_alert), the   *)
(* recurring trigger (BackgroundScheduler job + initial scan) and the      *)
(* query handler (get_signals).                                            *)
(*                                                                         *)
(* Numbers are exact rationals <<n, d>> (d > 0, lowest terms); the rolling *)
(* standard deviation is kept as its square and compared exactly.  The     *)
(* rounding of 64-bit floats is not modelled.                              *)
(***************************************************************************)
EXTENDS Integers, Sequences, FiniteSets, TLC

VARIABLES
    TICKERS,          \* app.py:15  the configured raw symbols, in order
    DISCORD_WEBHOOK,  \* app.py:16  "" when no webhook is configured
    heap,             \* the dict objects: reference -> mapping symbol -> entry
    squeeze_data,     \* app.py:19  the global name: a reference into heap
    data_lock,        \* app.py:20  "free" or the thread that holds the lock
    pc,               \* position of each scanning thread in scan_markets
    idx,              \* position of each scanning thread in the for loop
    temp_data,        \* the local name temp_data of each thread: a reference
    pending,          \* the (ticker, price) of the alert a thread is sending
    now,              \* datetime.now(), counted in firings of the trigger
    rpc,              \* position of each client's request in get_signals
    data,             \* the local name data of each request: <<>> or <<copy>>
    runlog,           \* history: per thread, what its current run fetched
    alerts,           \* history: per thread, the alerts of its current run
    published,        \* history: the mapping the last finished run built
    expected,         \* history: published, when a client made its copy
    cs_args,          \* arguments of a direct call of calculate_squeeze
    cs_ret            \* <<>> or <<what that call returned>>

vars == <<TICKERS, DISCORD_WEBHOOK, heap, squeeze_data, data_lock, pc, idx,
          temp_data, pending, now, rpc, data, runlog, alerts, published,
          expected, cs_args, cs_ret>>

scanVars == <<TICKERS, DISCORD_WEBHOOK, heap, squeeze_data, data_lock, pc,
              idx, temp_data, pending, now, rpc, data, runlog, alerts,
              published, expected>>

-----------------------------------------------------------------------------
(* Exact rational arithmetic.                                              *)

Abs(x) == IF x < 0 THEN -x ELSE x

RECURSIVE GCD(_, _)
GCD(a, b) == IF b = 0 THEN a ELSE GCD(b, a % b)

Rat(n, d) ==
    LET g == GCD(Abs(n), Abs(d))
        s == IF d < 0 THEN -1 ELSE 1
    IN  <<(s * n) \div g, (s * d) \div g>>

R(n) == <<n, 1>>

RAdd(a, b) ==
    LET g == GCD(a[2], b[2])
    IN  Rat(a[1] * (b[2] \div g) + b[1] * (a[2] \div g), a[2] * (b[2] \div g))

RNeg(a) == <<-a[1], a[2]>>

RSub(a, b) == RAdd(a, RNeg(b))

RMul(a, b) ==
    LET g1 == GCD(Abs(a[1]), b[2])
        g2 == GCD(Abs(b[1]), a[2])
        h1 == IF g1 = 0 THEN 1 ELSE g1
        h2 == IF g2 = 0 THEN 1 ELSE g2
    IN  Rat((a[1] \div h1) * (b[1] \div h2), (a[2] \div h2) * (b[2] \div h1))

RLt(a, b) ==
    LET g == GCD(a[2], b[2])
    IN  a[1] * (b[2] \div g) < b[1] * (a[2] \div g)

RGt(a, b) == RLt(b, a)

\* c * sqrt(v) < r, for rationals c, v, r with v >= 0, decided on squares
SurdLt(c, v, r) ==
    LET lhs2 == RMul(RMul(c, c), v)
        rhs2 == RMul(r, r)
    IN  IF c[1] >= 0
        THEN RLt(R(0), r) /\ RLt(lhs2, rhs2)
        ELSE RLt(R(0), r) \/ RLt(rhs2, lhs2)

\* int(x): truncation toward zero
IntOf(a) == IF a[1] >= 0 THEN a[1] \div a[2] ELSE -((-a[1]) \div a[2])

-----------------------------------------------------------------------------
(* Dicts and the pandas operations calculate_squeeze uses.                 *)

EmptyDict == <<>>

\* d[k] = v on a dict
Put(d, k, v) == [x \in (DOMAIN d) \cup {k} |-> IF x = k THEN v ELSE d[x]]

Has(d, k) == k \in DOMAIN d

\* float64 values that are not finite numbers: a JSON null becomes NaN in
\* the DataFrame, a JSON Infinity (or 1e999) becomes inf
NaN == <<0, 0>>
Inf == <<1, 0>>

Fields == {"close", "high", "low", "volume"}

\* a function on 1..n, laid out as a sequence
AsSeq(f) == SubSeq(f, 1, Len(f))

\* df[name]
Column(frame, name) == AsSeq([i \in 1..Len(frame) |-> frame[i][name]])

\* Series.ewm(span=span, adjust=False).mean(): y1 = x1, yi = (1-a)y(i-1) + a xi
\* (pandas leaves the average as it is when the new value equals it)
RECURSIVE EwmAcc(_, _, _, _)
EwmAcc(xs, alpha, i, acc) ==
    IF i > Len(xs) THEN acc
    ELSE EwmAcc(xs, alpha, i + 1,
                Append(acc, IF i = 1 THEN xs[1]
                            ELSE IF acc[i - 1] = xs[i] THEN xs[i]
                            ELSE RAdd(RMul(RSub(R(1), alpha), acc[i - 1]),
                                      RMul(alpha, xs[i]))))

EwmMean(xs, span) == EwmAcc(xs, Rat(2, span + 1), 1, <<>>)

\* xs[lo] + ... + xs[hi], summed by halves
RECURSIVE SumRange(_, _, _)
SumRange(xs, lo, hi) ==
    IF lo > hi THEN R(0)
    ELSE IF lo = hi THEN xs[lo]
    ELSE LET mid == (lo + hi) \div 2
         IN  RAdd(SumRange(xs, lo, mid), SumRange(xs, mid + 1, hi))

\* Series.rolling(L).mean() at the last row
RollingMeanLast(xs, L) ==
    RMul(SumRange(xs, Len(xs) - L + 1, Len(xs)), Rat(1, L))

SqDev(xs, m) ==
    AsSeq([i \in 1..Len(xs) |-> RMul(RSub(xs[i], m), RSub(xs[i], m))])

\* the square of Series.rolling(L).std() at the last row (ddof = 1), L >= 2
RollingVarLast(xs, L) ==
    RMul(SumRange(SqDev(xs, RollingMeanLast(xs, L)),
                  Len(xs) - L + 1, Len(xs)),
         Rat(1, L - 1))

Last(xs) == xs[Len(xs)]

SeqSub(xs, ys) == AsSeq([i \in 1..Len(xs) |-> RSub(xs[i], ys[i])])

-----------------------------------------------------------------------------
(* calculate_squeeze (app.py:52-99), evaluated at the last row (idx = -1). *)

\* a faulty variant of MinRows: three windows asked for
MinRowsTripleL(L) == 3 * L

MinRows(L) == L + 26

\* a faulty variant of InSqueezeLast: >= and <= in place of > and <
InSqueezeLastNonStrict(frame, L, bb, kc) ==
    LET close    == Column(frame, "close")
        range    == SeqSub(Column(frame, "high"), Column(frame, "low"))
        ema      == Last(EwmMean(close, L))
        atr      == RollingMeanLast(range, L)
        kc_upper == RAdd(ema, RMul(kc, atr))
        kc_lower == RSub(ema, RMul(kc, atr))
        sma      == RollingMeanLast(close, L)
        var      == RollingVarLast(close, L)
    IN  IF L < 2 THEN FALSE
        ELSE /\ SurdLt(bb, var, RSub(sma, kc_lower))
                  \/ RMul(RMul(bb, bb), var)
                       = RMul(RSub(sma, kc_lower), RSub(sma, kc_lower))
             /\ SurdLt(bb, var, RSub(kc_upper, sma))
                  \/ RMul(RMul(bb, bb), var)
                       = RMul(RSub(kc_upper, sma), RSub(kc_upper, sma))

\* c * sqrt(v) > r, for c >= 0
SurdGt(c, v, r) ==
    RLt(r, R(0)) \/ RLt(RMul(r, r), RMul(RMul(c, c), v))

\* a faulty variant of InSqueezeLast: the two bands exchanged, the Keltner
\* channel inside the Bollinger bands
InSqueezeLastSwapped(frame, L, bb, kc) ==
    LET close    == Column(frame, "close")
        range    == SeqSub(Column(frame, "high"), Column(frame, "low"))
        ema      == Last(EwmMean(close, L))
        atr      == RollingMeanLast(range, L)
        kc_upper == RAdd(ema, RMul(kc, atr))
        kc_lower == RSub(ema, RMul(kc, atr))
        sma      == RollingMeanLast(close, L)
        var      == RollingVarLast(close, L)
    IN  IF L < 2 THEN FALSE
        ELSE /\ SurdGt(bb, var, RSub(sma, kc_lower))
             /\ SurdGt(bb, var, RSub(kc_upper, sma))

\* (bb_lower > kc_lower) & (bb_upper < kc_upper) at the last row.  With
\* L = 1 the rolling std is NaN and both comparisons are False.
InSqueezeLast(frame, L, bb, kc) ==
    LET close    == Column(frame, "close")
        range    == SeqSub(Column(frame, "high"), Column(frame, "low"))
        ema      == Last(EwmMean(close, L))
        atr      == RollingMeanLast(range, L)
        kc_upper == RAdd(ema, RMul(kc, atr))
        kc_lower == RSub(ema, RMul(kc, atr))
        sma      == RollingMeanLast(close, L)
        var      == RollingVarLast(close, L)
    IN  IF L < 2 THEN FALSE
        ELSE /\ SurdLt(bb, var, RSub(sma, kc_lower))
             /\ SurdLt(bb, var, RSub(kc_upper, sma))

\* a faulty variant of HighVolLast: >= in place of >
HighVolLastNonStrict(frame, L, vol) ==
    LET volume == Column(frame, "volume")
    IN  ~RLt(Last(volume), RMul(vol, RollingMeanLast(volume, L)))

\* df['volume'] > vol * vol_avg at the last row
HighVolLast(frame, L, vol) ==
    LET volume == Column(frame, "volume")
    IN  RGt(Last(volume), RMul(vol, RollingMeanLast(volume, L)))

\* macd > signal at the last row
MacdBullLast(frame) ==
    LET close  == Column(frame, "close")
        macd   == SeqSub(EwmMean(close, 12), EwmMean(close, 26))
        signal == EwmMean(macd, 9)
    IN  RGt(Last(macd), Last(signal))

\* a faulty variant of FinalSignal: the MACD condition left out
FinalSignalNoMacd(in_squeeze, high_vol, macd_bull) ==
    in_squeeze /\ high_vol

\* in_squeeze & high_vol & macd_bull
FinalSignal(in_squeeze, high_vol, macd_bull) ==
    in_squeeze /\ high_vol /\ macd_bull

\* int(df['volume'].iloc[idx]) raises OverflowError on a non-finite volume
Raises(frame) == Last(frame).volume = Inf

FaultMessage == "cannot convert float infinity to integer"

\* the return value of the length guard of line 55-56
ShortReturn == [is_squeeze |-> FALSE, details |-> EmptyDict]

\* the return value of the except clause of line 97-99
FaultReturn ==
    [is_squeeze |-> FALSE,
     details |-> [error |-> TRUE, message |-> FaultMessage]]

calculate_squeeze(frame, L, bb, kc, vol) ==
    IF Len(frame) < MinRows(L) THEN ShortReturn
    ELSE IF Raises(frame) THEN FaultReturn
    ELSE LET in_squeeze == InSqueezeLast(frame, L, bb, kc)
             high_vol   == HighVolLast(frame, L, vol)
             macd_bull  == MacdBullLast(frame)
             squeeze_signal == FinalSignal(in_squeeze, high_vol, macd_bull)
         IN  [is_squeeze |-> squeeze_signal,
              details |-> [price        |-> Last(frame).close,
                           volume       |-> IntOf(Last(frame).volume),
                           in_squeeze   |-> in_squeeze,
                           high_volume  |-> high_vol,
                           macd_bullish |-> macd_bull,
                           signal       |-> squeeze_signal,
                           error        |-> FALSE]]

\* the defaults of the signature of line 52
DefaultL == 20
DefaultBB == R(2)
DefaultKC == Rat(3, 2)
DefaultVol == Rat(3, 2)

-----------------------------------------------------------------------------
(* The state machine: configuration, provider responses, helpers.          *)

ScanThreads == {"main", "job"}
Clients == {"c1"}

\* the clock stops at MaxNow
MaxNow == 1

\* str.strip() and str.upper() on strings kept as sequences of characters
IsSpace(c) == c \in {" "}

RECURSIVE LStrip(_)
LStrip(s) ==
    IF s # <<>> /\ IsSpace(Head(s)) THEN LStrip(Tail(s)) ELSE s

RECURSIVE RStrip(_)
RStrip(s) ==
    IF s # <<>> /\ IsSpace(s[Len(s)])
    THEN RStrip(SubSeq(s, 1, Len(s) - 1)) ELSE s

Strip(s) == RStrip(LStrip(s))

UpperChar(c) ==
    CASE c = "a" -> "A"
      [] c = "b" -> "B"
      [] OTHER -> c

Upper(s) == [i \in 1..Len(s) |-> UpperChar(s[i])]

\* a faulty variant of Normalize: the strip() left out
NormalizeNoStrip(raw) == Upper(raw)

\* ticker.strip().upper() of line 124
Normalize(raw) == Upper(Strip(raw))

Hook == "https://discord/hook"

\* the environments explored: TICKERS (after split(',')) and DISCORD_WEBHOOK.
\* "a, B" with a webhook, "A,a " (one symbol twice) without, "b " with
\* and without
Environments ==
    { [tickers |-> << <<"a">>, <<" ", "B">> >>, webhook |-> Hook],
      [tickers |-> << <<"A">>, <<"a", " ">> >>, webhook |-> ""],
      [tickers |-> << <<"b", " ">> >>,          webhook |-> Hook],
      [tickers |-> << <<"b", " ">> >>,          webhook |-> ""] }

Candle(c, h, l, v) == [close |-> c, high |-> h, low |-> l, volume |-> v]

Flat == Candle(R(100), R(101), R(99), R(10))
Surge == Candle(R(101), R(102), R(100), R(100))
Hole == Candle(R(100), NaN, R(99), R(10))
Huge == Candle(R(100), R(101), R(99), Inf)

Rows(n, c) == AsSeq([i \in 1..n |-> c])

\* What the provider can answer to one GET: a transport failure or a
\* non-2xx status, a body without chart.result, or a body with the four
\* per-minute arrays (given row-wise).
Provider ==
    [down     |-> [status |-> "error", result |-> FALSE, rows |-> <<>>],
     noresult |-> [status |-> "ok",    result |-> FALSE, rows |-> <<>>],
     gap      |-> [status |-> "ok",    result |-> TRUE,
                   rows |-> Rows(25, Flat) \o <<Hole>> \o Rows(24, Flat)],
     short    |-> [status |-> "ok",    result |-> TRUE,
                   rows |-> Rows(45, Flat)],
     quiet    |-> [status |-> "ok",    result |-> TRUE,
                   rows |-> Rows(50, Flat)],
     squeeze  |-> [status |-> "ok",    result |-> TRUE,
                   rows |-> Rows(49, Flat) \o <<Surge>>],
     huge     |-> [status |-> "ok",    result |-> TRUE,
                   rows |-> Rows(49, Flat) \o <<Huge>>]]

\* what fetch_yahoo_data returns: None or a DataFrame
None == [isNone |-> TRUE, rows |-> <<>>]
DataFrame(rows) == [isNone |-> FALSE, rows |-> rows]

\* DataFrame.dropna(): the rows without a NaN
DropNa(rows) ==
    SelectSeq(rows, LAMBDA row : \A f \in Fields : row[f] # NaN)

\* fetch_yahoo_data (app.py:22-50) on the provider's answer
fetch_yahoo_data(answer) ==
    IF answer.status # "ok" THEN None
    ELSE IF ~answer.result THEN None
    ELSE DataFrame(DropNa(answer.rows))

MinSamples == 50

\* the entry of lines 128-132
NoData == [error |-> TRUE, message |-> "No data available", signal |-> FALSE]

\* a faulty variant of Unusable: the test of the length left out
UnusableNoneOnly(d) == d.isNone

\* the test of line 127
Unusable(d) == d.isNone \/ Len(d.rows) < MinSamples

\* a faulty variant of StoreTarget: the loop stores into the global dict
StoreTargetGlobal(th) == squeeze_data

\* the dict the loop of scan_markets stores into (lines 128 and 137)
StoreTarget(th) == temp_data[th]

\* the frames fetch_yahoo_data can hand to calculate_squeeze at line 135
UsableFrames ==
    {fetch_yahoo_data(Provider[name]).rows : name \in DOMAIN Provider}

\* the call of line 135, calculate_squeeze(df) with the default parameters,
\* tabulated over these frames
DefaultCall ==
    [rows \in UsableFrames |->
        calculate_squeeze(rows, DefaultL, DefaultBB, DefaultKC, DefaultVol)]

\* the smallest reference not in use
NewRef(h) ==
    CHOOSE n \in 1..(Cardinality(DOMAIN h) + 1) :
        n \notin DOMAIN h /\ \A m \in 1..(n - 1) : m \in DOMAIN h

NoRef == 0

\* the dict objects still referenced by the global or by a local name
Collect(h, global, locals) ==
    [r \in (DOMAIN h) \cap ({global} \cup {locals[t] : t \in DOMAIN locals})
        |-> h[r]]

\* where a scan thread goes when scan_markets returns
AfterScan(th) == IF th = "main" THEN "serving" ELSE "idle"

\* the loop of line 123 after one ticker: the next one, or the publication
NextPc(i) == IF i < Len(TICKERS) THEN "loop" ELSE "acquire"

\* a faulty variant of AfterNoData: a break in place of the continue
AfterNoDataBreak(i) == "acquire"

\* the continue of line 133: on with the loop
AfterNoData(i) == NextPc(i)

\* a faulty variant of ShouldAlert: the alert follows the squeeze condition
\* alone
ShouldAlertOnSqueeze(ret) ==
    Has(ret.details, "in_squeeze") /\ ret.details.in_squeeze

\* is_squeeze of line 139: the alert is sent when the returned flag is true
ShouldAlert(ret) == ret.is_squeeze

-----------------------------------------------------------------------------
(* The state machine: initial state and actions.                           *)

NoArgs == [frame |-> <<>>, L |-> DefaultL, bb |-> DefaultBB,
           kc |-> DefaultKC, vol |-> DefaultVol]

\* the state at line 308: the scheduler is started, the initial scan is next
Init ==
    /\ \E env \in Environments :
         /\ TICKERS = env.tickers
         /\ DISCORD_WEBHOOK = env.webhook
    /\ heap = (1 :> EmptyDict)
    /\ squeeze_data = 1
    /\ data_lock = "free"
    /\ pc = [th \in ScanThreads |-> IF th = "main" THEN "start" ELSE "idle"]
    /\ idx = [th \in ScanThreads |-> 0]
    /\ temp_data = [th \in ScanThreads |-> NoRef]
    /\ pending = [th \in ScanThreads |-> <<>>]
    /\ now = 0
    /\ rpc = [c \in Clients |-> "idle"]
    /\ data = [c \in Clients |-> <<>>]
    /\ runlog = [th \in ScanThreads |-> <<>>]
    /\ alerts = [th \in ScanThreads |-> <<>>]
    /\ published = EmptyDict
    /\ expected = [c \in Clients |-> <<>>]
    /\ cs_args = NoArgs
    /\ cs_ret = <<>>

\* scan_markets, lines 118-121: temp_data = {}
BeginScan(th) ==
    LET ref == NewRef(heap)
    IN  /\ heap' = (ref :> EmptyDict) @@ heap
        /\ temp_data' = [temp_data EXCEPT ![th] = ref]
        /\ idx' = [idx EXCEPT ![th] = 1]
        /\ pc' = [pc EXCEPT ![th] = NextPc(0)]

\* line 311: the initial scan, on the main thread
InitialScan ==
    /\ pc["main"] = "start"
    /\ BeginScan("main")
    /\ UNCHANGED <<TICKERS, DISCORD_WEBHOOK, squeeze_data, data_lock,
                   pending, now, rpc, data, runlog, alerts, published,
                   expected, cs_args, cs_ret>>

\* a period of the trigger has passed
Later(t) == IF t < MaxNow THEN t + 1 ELSE t

\* lines 305-307: the interval trigger fires and the job has no running
\* instance: the scheduler runs scan_markets on a pool thread
TriggerRun ==
    /\ pc["job"] = "idle"
    /\ now' = Later(now)
    /\ BeginScan("job")
    /\ UNCHANGED <<TICKERS, DISCORD_WEBHOOK, squeeze_data, data_lock,
                   pending, rpc, data, runlog, alerts, published, expected,
                   cs_args, cs_ret>>

\* the trigger fires while an instance of the job is running: the
\* scheduler skips this run (max_instances is 1)
TriggerSkip ==
    /\ pc["job"] # "idle"
    /\ UNCHANGED <<TICKERS, DISCORD_WEBHOOK, heap, squeeze_data, data_lock,
                   pc, idx, temp_data, pending, now, rpc, data, runlog, alerts,
                   published, expected, cs_args, cs_ret>>

\* the history of a run: the ticker, the provider's answer to its fetch
\* and the time its result was stamped (no answer and time 0 when the
\* fetch gave nothing usable)
Logged(th, name, d) ==
    [runlog EXCEPT ![th] =
        Append(@, [ticker |-> Normalize(TICKERS[idx[th]]),
                   usable |-> ~Unusable(d),
                   answer |-> IF Unusable(d) THEN "" ELSE name,
                   stamp |-> IF Unusable(d) THEN 0 ELSE now])]

\* a faulty variant of RecordNoData: the entry of the previous snapshot is
\* kept for a ticker whose fetch failed
RecordNoDataStale(th, d) ==
    LET ticker == Normalize(TICKERS[idx[th]])
        target == StoreTarget(th)
        old    == heap[squeeze_data]
        entry  == IF Has(old, ticker) THEN old[ticker] ELSE NoData
    IN  /\ heap' = [heap EXCEPT ![target] = Put(@, ticker, entry)]
        /\ pc' = [pc EXCEPT ![th] = AfterNoData(idx[th])]
        /\ idx' = [idx EXCEPT ![th] = @ + 1]
        /\ pending' = pending

\* lines 127-133: no usable data for the ticker
RecordNoData(th, d) ==
    LET ticker == Normalize(TICKERS[idx[th]])
        target == StoreTarget(th)
    IN  /\ heap' = [heap EXCEPT ![target] = Put(@, ticker, NoData)]
        /\ pc' = [pc EXCEPT ![th] = AfterNoData(idx[th])]
        /\ idx' = [idx EXCEPT ![th] = @ + 1]
        /\ pending' = pending

\* lines 135-139: the indicator is computed, stamped and stored
RecordResult(th, d) ==
    LET ticker  == Normalize(TICKERS[idx[th]])
        target  == StoreTarget(th)
        ret     == DefaultCall[d.rows]
        details == Put(ret.details, "timestamp", now)
    IN  /\ heap' = [heap EXCEPT ![target] = Put(@, ticker, details)]
        /\ IF ShouldAlert(ret)
           THEN /\ pending' = [pending EXCEPT ![th] =
                                  <<[ticker |-> ticker,
                                     price |-> details.price]>>]
                /\ pc' = [pc EXCEPT ![th] = "alert"]
                /\ idx' = idx
           ELSE /\ pending' = pending
                /\ pc' = [pc EXCEPT ![th] = NextPc(idx[th])]
                /\ idx' = [idx EXCEPT ![th] = @ + 1]

\* lines 123-139, one iteration of the loop up to the alert: the GET of
\* line 125 returns or fails, and the result for the ticker is stored
ScanTicker(th) ==
    /\ pc[th] = "loop"
    /\ \E name \in DOMAIN Provider :
         LET d == fetch_yahoo_data(Provider[name])
         IN  /\ IF Unusable(d) THEN RecordNoData(th, d)
                ELSE RecordResult(th, d)
             /\ runlog' = Logged(th, name, d)
    /\ UNCHANGED <<TICKERS, DISCORD_WEBHOOK, squeeze_data, data_lock,
                   temp_data, now, rpc, data, alerts, published, expected,
                   cs_args, cs_ret>>

\* a faulty variant of SendAlert: the failure of the POST is raised to
\* scan_markets, which ends there
SendAlertRaises(th) ==
    /\ pc[th] = "alert"
    /\ \E outcome \in IF DISCORD_WEBHOOK = "" THEN {"none"}
                      ELSE {"sent", "failed"} :
         /\ alerts' = [alerts EXCEPT ![th] =
                          Append(@, [at |-> idx[th],
                                     ticker |-> pending[th][1].ticker,
                                     price |-> pending[th][1].price,
                                     post |-> outcome])]
         /\ pc' = [pc EXCEPT ![th] = IF outcome = "failed" THEN AfterScan(th)
                                     ELSE NextPc(idx[th])]
    /\ pending' = [pending EXCEPT ![th] = <<>>]
    /\ idx' = [idx EXCEPT ![th] = @ + 1]
    /\ UNCHANGED <<TICKERS, DISCORD_WEBHOOK, heap, squeeze_data, data_lock,
                   temp_data, now, rpc, data, runlog, published, expected,
                   cs_args, cs_ret>>

\* send_discord_alert (lines 101-114), called at line 140: no POST without
\* a webhook; otherwise one POST, whose failure is swallowed
SendAlert(th) ==
    /\ pc[th] = "alert"
    /\ \E outcome \in IF DISCORD_WEBHOOK = "" THEN {"none"}
                      ELSE {"sent", "failed"} :
         alerts' = [alerts EXCEPT ![th] =
                       Append(@, [at |-> idx[th],
                                  ticker |-> pending[th][1].ticker,
                                  price |-> pending[th][1].price,
                                  post |-> outcome])]
    /\ pending' = [pending EXCEPT ![th] = <<>>]
    /\ pc' = [pc EXCEPT ![th] = NextPc(idx[th])]
    /\ idx' = [idx EXCEPT ![th] = @ + 1]
    /\ UNCHANGED <<TICKERS, DISCORD_WEBHOOK, heap, squeeze_data, data_lock,
                   temp_data, now, rpc, data, runlog, published, expected,
                   cs_args, cs_ret>>

\* line 143: with data_lock
AcquireLock(th) ==
    /\ pc[th] = "acquire"
    /\ data_lock = "free"
    /\ data_lock' = th
    /\ pc' = [pc EXCEPT ![th] = "assign"]
    /\ UNCHANGED <<TICKERS, DISCORD_WEBHOOK, heap, squeeze_data, idx,
                   temp_data, pending, now, rpc, data, runlog, alerts,
                   published, expected, cs_args, cs_ret>>

\* a faulty variant of Publish: the lock is not released after the swap
PublishNoRelease(th) ==
    /\ pc[th] = "assign"
    /\ squeeze_data' = temp_data[th]
    /\ temp_data' = [temp_data EXCEPT ![th] = NoRef]
    /\ heap' = Collect(heap, squeeze_data', temp_data')
    /\ published' = heap[temp_data[th]]
    /\ data_lock' = data_lock
    /\ idx' = [idx EXCEPT ![th] = 0]
    /\ runlog' = [runlog EXCEPT ![th] = <<>>]
    /\ alerts' = [alerts EXCEPT ![th] = <<>>]
    /\ pc' = [pc EXCEPT ![th] = AfterScan(th)]
    /\ UNCHANGED <<TICKERS, DISCORD_WEBHOOK, pending, now, rpc, data,
                   expected, cs_args, cs_ret>>

\* line 144: squeeze_data = temp_data, the lock is released and
\* scan_markets returns; its locals are gone
Publish(th) ==
    /\ pc[th] = "assign"
    /\ squeeze_data' = temp_data[th]
    /\ temp_data' = [temp_data EXCEPT ![th] = NoRef]
    /\ heap' = Collect(heap, squeeze_data', temp_data')
    /\ published' = heap[temp_data[th]]
    /\ data_lock' = "free"
    /\ idx' = [idx EXCEPT ![th] = 0]
    /\ runlog' = [runlog EXCEPT ![th] = <<>>]
    /\ alerts' = [alerts EXCEPT ![th] = <<>>]
    /\ pc' = [pc EXCEPT ![th] = AfterScan(th)]
    /\ UNCHANGED <<TICKERS, DISCORD_WEBHOOK, pending, now, rpc, data,
                   expected, cs_args, cs_ret>>

\* a faulty variant of Request: the server accepts requests while the
\* module body is still running
RequestAnytime(c) ==
    /\ rpc[c] = "idle"
    /\ data_lock = "free"
    /\ data_lock' = c
    /\ rpc' = [rpc EXCEPT ![c] = "copy"]
    /\ UNCHANGED <<TICKERS, DISCORD_WEBHOOK, heap, squeeze_data, pc, idx,
                   temp_data, pending, now, data, runlog, alerts, published,
                   expected, cs_args, cs_ret>>

\* a GET /api/signals reaches get_signals and takes the lock (line 297);
\* the server accepts requests only after the module body, hence the
\* initial scan, has run
Request(c) ==
    /\ pc["main"] = "serving"
    /\ rpc[c] = "idle"
    /\ data_lock = "free"
    /\ data_lock' = c
    /\ rpc' = [rpc EXCEPT ![c] = "copy"]
    /\ UNCHANGED <<TICKERS, DISCORD_WEBHOOK, heap, squeeze_data, pc, idx,
                   temp_data, pending, now, data, runlog, alerts, published,
                   expected, cs_args, cs_ret>>

\* line 298: data = dict(squeeze_data), and the lock is released
Copy(c) ==
    /\ rpc[c] = "copy"
    /\ data' = [data EXCEPT ![c] = <<heap[squeeze_data]>>]
    /\ expected' = [expected EXCEPT ![c] = <<published>>]
    /\ data_lock' = "free"
    /\ rpc' = [rpc EXCEPT ![c] = "respond"]
    /\ UNCHANGED <<TICKERS, DISCORD_WEBHOOK, heap, squeeze_data, pc, idx,
                   temp_data, pending, now, runlog, alerts, published,
                   cs_args, cs_ret>>

\* lines 300-302: the copy is returned as JSON
Respond(c) ==
    /\ rpc[c] = "respond"
    /\ data' = [data EXCEPT ![c] = <<>>]
    /\ expected' = [expected EXCEPT ![c] = <<>>]
    /\ rpc' = [rpc EXCEPT ![c] = "idle"]
    /\ UNCHANGED <<TICKERS, DISCORD_WEBHOOK, heap, squeeze_data, data_lock,
                   pc, idx, temp_data, pending, now, runlog, alerts,
                   published, cs_args, cs_ret>>

Next ==
    \/ InitialScan
    \/ TriggerRun
    \/ TriggerSkip
    \/ \E th \in ScanThreads : ScanTicker(th)
    \/ \E th \in ScanThreads : SendAlert(th)
    \/ \E th \in ScanThreads : AcquireLock(th)
    \/ \E th \in ScanThreads : Publish(th)
    \/ \E c \in Clients : Request(c)
    \/ \E c \in Clients : Copy(c)
    \/ \E c \in Clients : Respond(c)

Spec == Init /\ [][Next]_vars

-----------------------------------------------------------------------------
(* The scan under the scheduling the runtime gives it.                     *)

\* the configurations of one ticker
InitLive == Init /\ Len(TICKERS) = 1

\* Every network call returns or times out (the fetch of line 29 within
\* 15 s, the POST of line 106 within 5 s), a thread that can run does run,
\* the interval trigger keeps firing, a request that holds the lock ends
\* its copy, and a thread waiting for the lock gets it once it is free
\* often enough.
Fairness ==
    /\ WF_vars(InitialScan)
    /\ WF_vars(TriggerRun)
    /\ \A th \in ScanThreads :
         /\ WF_vars(ScanTicker(th))
         /\ WF_vars(SendAlert(th))
         /\ SF_vars(AcquireLock(th))
         /\ WF_vars(Publish(th))
    /\ \A c \in Clients : WF_vars(Copy(c))

SpecLive == InitLive /\ [][Next]_vars /\ Fairness

-----------------------------------------------------------------------------
(* calculate_squeeze called directly, with any parameters.                 *)

\* the candles of the frames explored
Calm == Candle(R(10), R(11), R(9), R(10))
Still == Candle(R(10), R(10), R(10), R(10))
Up == Candle(R(11), R(12), R(10), R(40))
Down == Candle(R(9), R(10), R(8), R(10))
Dump == Candle(R(9), R(10), R(8), R(40))
Rise == Candle(R(11), R(12), R(10), R(10))
Burst == Candle(R(10), R(11), R(9), Inf)
StillSurge == Candle(R(10), R(10), R(10), R(40))
Idle == Candle(R(10), R(11), R(9), R(0))

\* the frames explored: a run of Calm candles and then two candles, a run
\* of Still candles (no range, no movement) with or without a last candle
\* of more volume, or a run of Idle candles (no volume)
CalcLengths == {27, 28, 29}

CalcFrames ==
    { Rows(n - 2, Calm) \o <<c1, c2>> :
        n \in CalcLengths, c1 \in {Calm, Up, Down},
        c2 \in {Calm, Up, Down, Dump, Rise, Burst} }
    \cup { Rows(n, Still) : n \in CalcLengths }
    \cup { Rows(n - 1, Still) \o <<StillSurge>> : n \in CalcLengths }
    \cup { Rows(n, Idle) : n \in CalcLengths }

CalcL == {2, 3}
CalcBB == {R(1), R(2), R(3)}
CalcKC == {R(1), Rat(3, 2), R(2)}
CalcVol == {Rat(1, 2), R(1), Rat(3, 2)}

InitCalc ==
    /\ TICKERS = << <<"a">> >>
    /\ DISCORD_WEBHOOK = ""
    /\ heap = (1 :> EmptyDict)
    /\ squeeze_data = 1
    /\ data_lock = "free"
    /\ pc = [th \in ScanThreads |-> IF th = "main" THEN "start" ELSE "idle"]
    /\ idx = [th \in ScanThreads |-> 0]
    /\ temp_data = [th \in ScanThreads |-> NoRef]
    /\ pending = [th \in ScanThreads |-> <<>>]
    /\ now = 0
    /\ rpc = [c \in Clients |-> "idle"]
    /\ data = [c \in Clients |-> <<>>]
    /\ runlog = [th \in ScanThreads |-> <<>>]
    /\ alerts = [th \in ScanThreads |-> <<>>]
    /\ published = EmptyDict
    /\ expected = [c \in Clients |-> <<>>]
    /\ \E frame \in CalcFrames, L \in CalcL :
         cs_args = [frame |-> frame, L |-> L, bb |-> DefaultBB,
                    kc |-> DefaultKC, vol |-> DefaultVol]
    /\ cs_ret = <<>>

\* the first call: calculate_squeeze(df, L, bb, kc, vol) on the frame
Calculate ==
    /\ cs_ret = <<>>
    /\ \E bb \in CalcBB, kc \in CalcKC, vol \in CalcVol :
         /\ cs_args' = [cs_args EXCEPT !.bb = bb, !.kc = kc, !.vol = vol]
         /\ cs_ret' = <<calculate_squeeze(cs_args.frame, cs_args.L,
                                          bb, kc, vol)>>
    /\ UNCHANGED scanVars

\* the same frame again, with one multiplier changed
Recalculate ==
    /\ cs_ret # <<>>
    /\ \E bb \in CalcBB, kc \in CalcKC, vol \in CalcVol :
         /\ Cardinality({m \in {"bb", "kc", "vol"} :
                           [bb |-> bb, kc |-> kc, vol |-> vol][m]
                              # cs_args[m]}) = 1
         /\ cs_args' = [cs_args EXCEPT !.bb = bb, !.kc = kc, !.vol = vol]
         /\ cs_ret' = <<calculate_squeeze(cs_args.frame, cs_args.L,
                                          bb, kc, vol)>>
    /\ UNCHANGED scanVars

NextCalc == Calculate \/ Recalculate

SpecCalc == InitCalc /\ [][NextCalc]_vars

-----------------------------------------------------------------------------
(* Properties of the snapshot store and of the scan.                       *)

\* the configured symbols, trimmed and upper-cased
Symbols == {Upper(Strip(TICKERS[i])) : i \in DOMAIN TICKERS}

Scanning(th) == pc[th] \in {"loop", "alert", "acquire", "assign"}

IsError(e) == Has(e, "error") /\ e.error = TRUE

IsSignal(e) == Has(e, "error") /\ e.error = FALSE

\* the frame a run fetched for a ticker: no rows, or the rows
\* fetch_yahoo_data makes of the provider's answer
Frame(e) ==
    IF e.answer = "" THEN <<>> ELSE fetch_yahoo_data(Provider[e.answer]).rows

\* what calculate_squeeze gives on each answer's frame with the defaults
Results ==
    [name \in DOMAIN Provider |->
        calculate_squeeze(fetch_yahoo_data(Provider[name]).rows,
                          DefaultL, DefaultBB, DefaultKC, DefaultVol)]

\* the entry a run owes a ticker, given what this run fetched for it
OwnEntry(e) ==
    IF ~e.usable THEN NoData
    ELSE Put(Results[e.answer].details, "timestamp", e.stamp)

LastAt(log, t) ==
    CHOOSE i \in DOMAIN log :
        log[i].ticker = t /\ \A j \in DOMAIN log : j > i => log[j].ticker # t

\* the mapping a run owes, given what this run fetched
FromLog(log) ==
    [t \in {log[i].ticker : i \in DOMAIN log} |-> OwnEntry(log[LastAt(log, t)])]

\* C1: the mapping a request copies is, whole, the mapping the last run to
\* finish before the copy built (or the initial empty mapping): never part
\* of a run's entries, never entries of two runs.
C1_ReaderSeesOneSnapshot ==
    \A c \in Clients :
        rpc[c] = "respond" =>
            /\ data[c] = expected[c]
            /\ data[c][1] = EmptyDict \/ DOMAIN data[c][1] = Symbols

\* a request holds its copy while a run has stored part of its entries
C1_ReaderDuringScan ==
    \E c \in Clients, th \in ScanThreads :
        /\ rpc[c] = "respond"
        /\ data[c][1] # EmptyDict
        /\ pc[th] = "loop"
        /\ idx[th] = 2
        /\ heap[temp_data[th]] # EmptyDict

\* C2: at most one run of scan_markets is in progress at any time.
C2_OneRunAtATime ==
    Cardinality({th \in ScanThreads : Scanning(th)}) <= 1

\* C4: every entry of the published snapshot with error = true also has
\* signal = false, whether the fetch failed or the computation did.
C4_ErrorEntriesCarrySignalFalse ==
    \A t \in DOMAIN heap[squeeze_data] :
        LET e == heap[squeeze_data][t]
        IN  IsError(e) => (Has(e, "signal") /\ e.signal = FALSE)

\* C5: the keys of the published snapshot are exactly the configured
\* symbols, trimmed and upper-cased, however each fetch went; the mapping
\* is empty only before the first publication.
C5_KeysAreConfiguredSymbols ==
    /\ heap[squeeze_data] = EmptyDict \/ DOMAIN heap[squeeze_data] = Symbols
    /\ published # EmptyDict => DOMAIN heap[squeeze_data] = Symbols
    /\ pc["main"] = "serving" => DOMAIN heap[squeeze_data] = Symbols

\* a published snapshot of two symbols, one fetched and one not
C5_MixedOutcomesPublished ==
    /\ pc["main"] = "serving"
    /\ Cardinality(DOMAIN heap[squeeze_data]) = 2
    /\ \E t, u \in DOMAIN heap[squeeze_data] :
         /\ IsError(heap[squeeze_data][t])
         /\ IsSignal(heap[squeeze_data][u])

\* C6: the snapshot a run publishes is built from that run's own fetches
\* alone: a ticker whose fetch failed in this run is published as an Error
\* entry, also when the snapshot being replaced held a Signal entry for it.
C6_SnapshotFromOwnRun ==
    [][\A th \in ScanThreads :
          (pc[th] = "assign" /\ pc'[th] # "assign") =>
              /\ heap'[squeeze_data'] = FromLog(runlog[th])
              /\ \A i \in DOMAIN runlog[th] :
                    LET t == runlog[th][i].ticker
                    IN  (i = LastAt(runlog[th], t) /\ ~runlog[th][i].usable)
                            => heap'[squeeze_data'][t] = NoData]_vars

\* a run is about to replace a Signal entry by the Error entry of its own
\* failed fetch
C6_SignalThenFailedFetch ==
    \E th \in ScanThreads, t \in DOMAIN heap[squeeze_data] :
        /\ pc[th] = "assign"
        /\ IsSignal(heap[squeeze_data][t])
        /\ heap[squeeze_data][t].signal = TRUE
        /\ Has(heap[temp_data[th]], t)
        /\ heap[temp_data[th]][t] = NoData

\* the positions of a run's log whose result is a Signal entry with signal
\* = true
IsHit(e) ==
    /\ e.usable
    /\ IsSignal(Results[e.answer].details)
    /\ Results[e.answer].details.signal

Hits(log) == {i \in DOMAIN log : IsHit(log[i])}

\* C7: within a run the alert dispatcher is called exactly once for each
\* ticker processed whose result is a Signal entry with signal = true, with
\* the price of that result, and for no other; what the previous snapshot
\* held for the ticker plays no part.
C7_AlertIffSignal ==
    \A th \in ScanThreads :
        LET log  == runlog[th]
            sent == {alerts[th][k].at : k \in DOMAIN alerts[th]}
        IN  /\ \A k \in DOMAIN alerts[th] :
                 LET a == alerts[th][k]
                 IN  /\ a.at \in DOMAIN log
                     /\ IsHit(log[a.at])
                     /\ a.ticker = log[a.at].ticker
                     /\ a.price = Results[log[a.at].answer].details.price
                     /\ (a.post = "none") = (DISCORD_WEBHOOK = "")
            /\ Cardinality(sent) = Len(alerts[th])
            /\ Hits(log) \ sent = IF pc[th] = "alert" THEN {idx[th]} ELSE {}
            /\ pc[th] = "alert" =>
                 /\ pending[th] # <<>>
                 /\ pending[th][1].ticker = log[idx[th]].ticker
                 /\ pending[th][1].price
                       = Results[log[idx[th]].answer].details.price

\* a run has alerted for a ticker whose published entry, from the run
\* before, has signal = true already
C7_AlertRepeated ==
    \E th \in ScanThreads : \E k \in DOMAIN alerts[th] :
        LET t == alerts[th][k].ticker
        IN  /\ Has(heap[squeeze_data], t)
            /\ IsSignal(heap[squeeze_data][t])
            /\ heap[squeeze_data][t].signal = TRUE
            /\ heap[squeeze_data][t].timestamp < now
            /\ alerts[th][k].post = "sent"

\* C9: one ticker's failed fetch or failed computation touches no other
\* ticker: when the loop is over every configured ticker has been
\* processed, in order, and holds the entry of its own fetch.
C9_TickersIndependent ==
    \A th \in ScanThreads :
        /\ Scanning(th) =>
             \A i \in DOMAIN runlog[th] :
                 runlog[th][i].ticker = Upper(Strip(TICKERS[i]))
        /\ pc[th] \in {"acquire", "assign"} =>
             /\ Len(runlog[th]) = Len(TICKERS)
             /\ \A i \in DOMAIN runlog[th] :
                   LET t == runlog[th][i].ticker
                   IN  i = LastAt(runlog[th], t) =>
                           heap[temp_data[th]][t] = OwnEntry(runlog[th][i])

\* a run is over whose first ticker failed (no data, or a fault in the
\* computation) and whose second ticker has its Signal entry
C9_FailureThenResult ==
    \E th \in ScanThreads :
        /\ pc[th] = "acquire"
        /\ Len(runlog[th]) = 2
        /\ runlog[th][1].ticker # runlog[th][2].ticker
        /\ IsError(heap[temp_data[th]][runlog[th][1].ticker])
        /\ IsSignal(heap[temp_data[th]][runlog[th][2].ticker])

\* C11: data_lock is held by a scan only at the assignment that swaps the
\* snapshot and by a request only at its copy: never during a fetch, a
\* computation or an alert, so a request never waits for one of these.
C11_LockOnlyForSwapAndCopy ==
    /\ data_lock \in {"free"} \cup ScanThreads \cup Clients
    /\ \A th \in ScanThreads : (data_lock = th) = (pc[th] = "assign")
    /\ \A c \in Clients : (data_lock = c) = (rpc[c] = "copy")

\* a request holds the lock for its copy while a scan is fetching its
\* first ticker
C11_CopyDuringFetch ==
    \E c \in Clients, th \in ScanThreads :
        /\ rpc[c] = "copy"
        /\ data_lock = c
        /\ pc[th] = "loop"
        /\ idx[th] = 1

\* C12: whatever the POST does (sent, failed or timed out), the call of
\* send_discord_alert returns to the loop, which goes on with the next
\* ticker with the run's dict as it was, and the dict the run ends with is
\* the one its fetches determine; without a webhook no POST is made.
C12_AlertFailureSwallowed ==
    /\ [][\A th \in ScanThreads :
             (pc[th] = "alert" /\ pc'[th] # "alert") =>
                 /\ pc'[th] = NextPc(idx[th])
                 /\ idx'[th] = idx[th] + 1
                 /\ heap' = heap
                 /\ temp_data' = temp_data
                 /\ runlog' = runlog
                 /\ Len(alerts'[th]) = Len(alerts[th]) + 1
                 /\ Last(alerts'[th]).post \in
                        (IF DISCORD_WEBHOOK = "" THEN {"none"}
                         ELSE {"sent", "failed"})]_vars
    /\ [](\A th \in ScanThreads :
             pc[th] = "assign" => heap[temp_data[th]] = FromLog(runlog[th]))

\* a run whose POST for its first ticker failed has gone on to its second
\* ticker and is about to publish both entries
C12_ScanGoesOnAfterFailedPost ==
    \E th \in ScanThreads :
        /\ pc[th] = "assign"
        /\ Len(runlog[th]) = 2
        /\ alerts[th] # <<>>
        /\ alerts[th][1].at = 1
        /\ alerts[th][1].post = "failed"
        /\ Cardinality(DOMAIN heap[temp_data[th]]) = 2

\* what one iteration of the loop has just added to the log of its run
Fetched(th) == runlog'[th][Len(runlog'[th])]

\* the entry the iteration has stored for its ticker
Stored(th) == heap'[temp_data[th]][Fetched(th).ticker]

\* an iteration of the loop by th: the fetch for one ticker has returned
Iterates(th) ==
    pc[th] = "loop" /\ Len(runlog'[th]) = Len(runlog[th]) + 1

\* no alert is on its way for th after the step and none was recorded
NoAlert(th) ==
    pc'[th] # "alert" /\ pending' = pending /\ alerts' = alerts

\* C13 as stated: when the fetch gives None or fewer than 50 rows, the
\* entry stored is exactly {error: true, message: "no data available",
\* signal: false}, nothing is computed and no alert is sent.
C13_NoDataEntryLowerCase ==
    [][\A th \in ScanThreads :
          (Iterates(th) /\ Len(Frame(Fetched(th))) < 50) =>
              /\ Stored(th) = [error |-> TRUE,
                               message |-> "no data available",
                               signal |-> FALSE]
              /\ NoAlert(th)]_vars

\* C13, amended: the same with the message as the code spells it, "No
\* data available".
C13_NoDataEntry ==
    [][\A th \in ScanThreads :
          (Iterates(th) /\ Len(Frame(Fetched(th))) < 50) =>
              /\ Stored(th) = [error |-> TRUE,
                               message |-> "No data available",
                               signal |-> FALSE]
              /\ NoAlert(th)]_vars

\* a run has stored the no-data entry for its first ticker, sent no alert
\* and gone on
C13_NoDataRecorded ==
    \E th \in ScanThreads :
        /\ pc[th] = "loop"
        /\ idx[th] = 2
        /\ ~runlog[th][1].usable
        /\ heap[temp_data[th]][runlog[th][1].ticker].message
               = "No data available"
        /\ DOMAIN heap[temp_data[th]][runlog[th][1].ticker]
               = {"error", "message", "signal"}
        /\ alerts[th] = <<>>

IndicatorFields == {"price", "volume", "in_squeeze", "high_volume",
                    "macd_bullish"}

ErrorShaped(e) ==
    IsError(e) /\ Has(e, "message") /\ DOMAIN e \cap IndicatorFields = {}

SignalShaped(e) ==
    /\ IsSignal(e)
    /\ IndicatorFields \cup {"signal", "timestamp"} \subseteq DOMAIN e
    /\ ~Has(e, "message")

\* C14: every entry of the published snapshot has one of the two shapes:
\* error = true with a message and no indicator field, or error = false
\* with price, volume, in_squeeze, high_volume, macd_bullish, signal and
\* timestamp and no message.
C14_EntriesAreOneVariant ==
    \A t \in DOMAIN heap[squeeze_data] :
        ErrorShaped(heap[squeeze_data][t]) \/ SignalShaped(heap[squeeze_data][t])

\* a published snapshot with a Signal entry beside the Error entry of a
\* computation that failed
C14_BothShapesPublished ==
    \E t, u \in DOMAIN heap[squeeze_data] :
        /\ SignalShaped(heap[squeeze_data][t])
        /\ ErrorShaped(heap[squeeze_data][u])
        /\ Has(heap[squeeze_data][u], "timestamp")

\* C16: a request is accepted only after the startup scan has published,
\* so every response holds an entry for every configured symbol and never
\* the initial empty mapping.
C16_NoRequestBeforeFirstPublish ==
    \A c \in Clients :
        /\ rpc[c] # "idle" =>
             /\ pc["main"] = "serving"
             /\ published # EmptyDict
             /\ DOMAIN heap[squeeze_data] = Symbols
        /\ rpc[c] = "respond" =>
             /\ data[c][1] # EmptyDict
             /\ DOMAIN data[c][1] = Symbols

\* a response holds the snapshot of the startup scan, before the trigger
\* has fired once
C16_FirstResponse ==
    \E c \in Clients :
        /\ rpc[c] = "respond"
        /\ now = 0
        /\ pc["job"] = "idle"
        /\ DOMAIN data[c][1] = Symbols

\* C19: while send_discord_alert is being called for a ticker, the dict
\* requests read is still the one last published, not the dict holding the
\* result that caused the alert; when the run comes to publish, all its
\* alerts have been sent.
C19_AlertsBeforePublish ==
    \A th \in ScanThreads :
        /\ pc[th] = "alert" =>
             /\ squeeze_data # temp_data[th]
             /\ heap[squeeze_data] = published
             /\ heap[temp_data[th]][pending[th][1].ticker].signal = TRUE
        /\ pc[th] \in {"acquire", "assign"} =>
             /\ pending[th] = <<>>
             /\ Hits(runlog[th]) = {alerts[th][k].at : k \in DOMAIN alerts[th]}

\* an alert is being sent for a ticker whose visible entry is the Error
\* entry of the run before
C19_AlertWhileOldVisible ==
    \E th \in ScanThreads :
        /\ pc[th] = "alert"
        /\ Has(heap[squeeze_data], pending[th][1].ticker)
        /\ IsError(heap[squeeze_data][pending[th][1].ticker])

\* C20: published snapshots never go back in time: when a snapshot is
\* replaced, no ticker's timestamp in the new snapshot is earlier than its
\* timestamp in the one replaced.
C20_SnapshotsNeverGoBack ==
    [][\A th \in ScanThreads :
          (pc[th] = "assign" /\ pc'[th] # "assign") =>
              \A t \in DOMAIN heap[squeeze_data]
                        \cap DOMAIN heap'[squeeze_data'] :
                  (Has(heap[squeeze_data][t], "timestamp")
                     /\ Has(heap'[squeeze_data'][t], "timestamp"))
                  => heap[squeeze_data][t].timestamp
                        <= heap'[squeeze_data'][t].timestamp]_vars

\* C15: every run of scan_markets that starts comes to its assignment and
\* returns, and the scheduled run starts and publishes again and again,
\* whatever fails in the runs before.
C15_ScanningNeverStops ==
    /\ \A th \in ScanThreads : Scanning(th) ~> (pc[th] = "assign")
    /\ \A th \in ScanThreads : (pc[th] = "assign") ~> ~Scanning(th)
    /\ []<>(pc["job"] = "loop")
    /\ []<>(pc["job"] = "assign")

\* a scheduled run in which the only fetch failed is publishing over a
\* snapshot in which it had failed as well
C15_PublishAfterFailures ==
    /\ pc["job"] = "assign"
    /\ published # EmptyDict
    /\ \A t \in DOMAIN published : IsError(published[t])
    /\ \A t \in DOMAIN heap[temp_data["job"]] :
         IsError(heap[temp_data["job"]][t])

-----------------------------------------------------------------------------
(* Properties of calculate_squeeze called directly.                        *)

Called == cs_ret # <<>>

\* C3: a series of fewer than L + 26 rows gives an Error entry whose
\* message says that the data is insufficient.
C3_ShortSeriesIsError ==
    (Called /\ Len(cs_args.frame) < cs_args.L + 26) =>
        /\ IsError(cs_ret[1].details)
        /\ Has(cs_ret[1].details, "message")
        /\ cs_ret[1].details.message = "insufficient data"

\* signal = in_squeeze AND high_volume AND macd_bullish on one entry
Fused(d) == d.signal = (d.in_squeeze /\ d.high_volume /\ d.macd_bullish)

\* C8: a series of at least L + 26 rows with a finite last volume gives a
\* Signal entry, and in every Signal entry signal is true exactly when
\* in_squeeze, high_volume and macd_bullish are all true; the flag returned
\* beside the entry is that same value.  The same holds of every Signal
\* entry of the published snapshot.
C8_SignalIsConjunction ==
    /\ Called =>
         LET d == cs_ret[1].details
         IN  /\ (Len(cs_args.frame) >= cs_args.L + 26
                   /\ Last(cs_args.frame).volume # Inf) => IsSignal(d)
             /\ IsSignal(d) => (Fused(d) /\ cs_ret[1].is_squeeze = d.signal)
    /\ \A t \in DOMAIN heap[squeeze_data] :
         IsSignal(heap[squeeze_data][t]) => Fused(heap[squeeze_data][t])

\* a call has returned a Signal entry with all three conditions and the
\* signal true
C8_SignalRaised ==
    /\ Called
    /\ IsSignal(cs_ret[1].details)
    /\ cs_ret[1].details.in_squeeze
    /\ cs_ret[1].details.high_volume
    /\ cs_ret[1].details.macd_bullish
    /\ cs_ret[1].details.signal

\* two calls in a row, both returning a Signal entry
BothSignal ==
    /\ Called
    /\ cs_ret' # <<>>
    /\ IsSignal(cs_ret[1].details)
    /\ IsSignal(cs_ret'[1].details)

\* the second call differs from the first by a larger bb, or by a larger kc
WiderBB == RLt(cs_args.bb, cs_args'.bb) /\ cs_args'.kc = cs_args.kc

WiderKC == RLt(cs_args.kc, cs_args'.kc) /\ cs_args'.bb = cs_args.bb

Entered == ~cs_ret[1].details.in_squeeze /\ cs_ret'[1].details.in_squeeze

Left == cs_ret[1].details.in_squeeze /\ ~cs_ret'[1].details.in_squeeze

\* C10 as stated: with the series fixed, neither a larger bb nor a larger
\* kc turns in_squeeze from false to true.
C10_WideningNeverEnters ==
    [][(BothSignal /\ (WiderBB \/ WiderKC)) => ~Entered]_vars

\* C10, amended: with the series fixed and multipliers that are positive,
\* a larger bb never turns in_squeeze from false to true, and a larger kc
\* never turns it from true to false.
C10_WiderBBNeverEntersWiderKCNeverLeaves ==
    [][(BothSignal /\ RLt(R(0), cs_args.bb) /\ RLt(R(0), cs_args.kc)) =>
          /\ WiderBB => ~Entered
          /\ WiderKC => ~Left]_vars

\* a call has found no squeeze where the same series is in squeeze with a
\* smaller bb, and also with a larger kc
C10_BothDirections ==
    /\ Called
    /\ IsSignal(cs_ret[1].details)
    /\ ~cs_ret[1].details.in_squeeze
    /\ \E bb \in CalcBB :
         /\ RLt(bb, cs_args.bb)
         /\ InSqueezeLast(cs_args.frame, cs_args.L, bb, cs_args.kc)
    /\ \E kc \in CalcKC :
         /\ RLt(cs_args.kc, kc)
         /\ InSqueezeLast(cs_args.frame, cs_args.L, cs_args.bb, kc)

\* every row has the volume of the first, a finite number >= 0
ConstVolume(frame) ==
    /\ frame[1].volume # Inf
    /\ ~RLt(frame[1].volume, R(0))
    /\ \A i \in DOMAIN frame : frame[i].volume = frame[1].volume

\* C17: on a series of at least L + 26 rows whose volume is one constant
\* >= 0, with vol >= 1, the result has high_volume = false and signal =
\* false, whatever the prices.
C17_ConstantVolumeNoSignal ==
    (/\ Called
     /\ Len(cs_args.frame) >= cs_args.L + 26
     /\ ConstVolume(cs_args.frame)
     /\ ~RLt(cs_args.vol, R(1))) =>
        /\ IsSignal(cs_ret[1].details)
        /\ ~cs_ret[1].details.high_volume
        /\ ~cs_ret[1].details.signal
        /\ ~cs_ret[1].is_squeeze

\* a call on constant volume and rising prices: in squeeze, MACD bullish,
\* and no signal for want of volume
C17_OnlyVolumeMissing ==
    /\ Called
    /\ ConstVolume(cs_args.frame)
    /\ ~RLt(cs_args.vol, R(1))
    /\ IsSignal(cs_ret[1].details)
    /\ cs_ret[1].details.in_squeeze
    /\ cs_ret[1].details.macd_bullish
    /\ ~cs_ret[1].details.signal

\* every row has the close of the first, and high = low = close
Flatline(frame) ==
    \A i \in DOMAIN frame :
        /\ frame[i].close = frame[1].close
        /\ frame[i].high = frame[i].close
        /\ frame[i].low = frame[i].close

\* C18: on a series of at least L + 26 rows with one constant close and
\* high = low = close, the deviation and the range are zero, both averages
\* are the close, and the result has in_squeeze = false and signal = false.
C18_ZeroVolatilityNoSqueeze ==
    (/\ Called
     /\ Len(cs_args.frame) >= cs_args.L + 26
     /\ Flatline(cs_args.frame)
     /\ Last(cs_args.frame).volume # Inf) =>
        LET close == Column(cs_args.frame, "close")
            range == SeqSub(Column(cs_args.frame, "high"),
                            Column(cs_args.frame, "low"))
        IN  /\ RollingVarLast(close, cs_args.L) = R(0)
            /\ RollingMeanLast(range, cs_args.L) = R(0)
            /\ RollingMeanLast(close, cs_args.L) = Last(close)
            /\ Last(EwmMean(close, cs_args.L)) = Last(close)
            /\ IsSignal(cs_ret[1].details)
            /\ ~cs_ret[1].details.in_squeeze
            /\ ~cs_ret[1].details.signal

\* a call on a flat series whose last candle has a surge of volume: high
\* volume, and no squeeze
C18_FlatWithSurge ==
    /\ Called
    /\ Flatline(cs_args.frame)
    /\ IsSignal(cs_ret[1].details)
    /\ cs_ret[1].details.high_volume
    /\ ~cs_ret[1].details.in_squeeze

=============================================================================
